---- MODULE Spec2Model ----
(***************************************************************************)
(* bff-hang: the poll handlers of main.go over the Storage interface.      *)
(*                                                                         *)
(* Strings are sequences of character codes (0 is the space character), so *)
(* strings.TrimSpace and sort.Strings are computed, not assumed.           *)
(* A request is split at its storage calls: one action is one storage call *)
(* together with the handler's local computation up to the next call.      *)
(*                                                                         *)
(* polls, responses  the store (the maps of MemoryStorage, the table of    *)
(*                   DynamoDBStorage)                                      *)
(* pc, loc, result   per request in flight: where its handler stands, its  *)
(*                   local variables, the HTTP answer it gave              *)
(* started           the requests (or direct storage calls) made so far    *)
(* issued            the creator tokens the server has handed out          *)
(* backend, call     the backend newStorage chose; the last direct call on *)
(*                   the Storage interface and what it returned            *)
(* heap              the slices of MemoryStorage.responses as Go holds     *)
(*                   them (backing arrays and slice headers), kept where   *)
(*                   calls on MemoryStorage overlap in time                *)
(*                                                                         *)
(* Spec         requests handled concurrently, on MemoryStorage            *)
(* SeqSpec      requests handled one after the other, on MemoryStorage,    *)
(*              backend calls may fail                                     *)
(* TypedSpec    requests handled one after the other, their "days" fields  *)
(*              typed in by hand                                           *)
(* PageSpec     requests handled one after the other, the GET of the page  *)
(*              among them                                                 *)
(* StarvedSpec  requests handled one after the other, rand.Read may fail   *)
(* TwoPollSpec  requests handled one after the other, on up to two polls   *)
(* StorageSpec  calls on the Storage interface itself, on either backend   *)
(* RaceSpec     calls on the Storage interface that overlap in time        *)
(* NormalizeSpec  calls of normalizeDays itself, on a list and on what it  *)
(*              returned                                                   *)
(***************************************************************************)
EXTENDS Naturals, Sequences, FiniteSets

VARIABLES polls, responses, pc, loc, result, started, issued, backend, call,
          heap

vars == <<polls, responses, pc, loc, result, started, issued, backend, call, heap>>

----------------------------------------------------------------------------
(* Bounds of the model *)

\* number of requests that may be in flight at once
MaxProcs == 2
\* number of requests of a run that get as far as a storage write
MaxRequests == 3
\* length of the "days" form field list of a request
MaxInputDays == 2
\* number of calls a run makes on the Storage interface directly
MaxCalls == 4
\* number of calls a run makes on the Storage interface that may overlap
MaxRaceCalls == 3
\* the latest time (in clock ticks) such a call passes in a poll or response
MaxTime == 3
\* clock ticks in a second
TicksPerSecond == 2
\* length of a list handed to normalizeDays directly
MaxListLen == 3

Procs == 1..MaxProcs

----------------------------------------------------------------------------
(* Strings *)

SP == <<0>>
EmptyString == <<>>

\* day strings, in ascending order ("2024-01-01", "2024-01-02")
Day1 == <<1>>
Day2 == <<2>>
\* a string that is no date ("tomorrow")
NoDate == <<3>>
\* time.Parse("2006-01-02", day) returns no error
IsDate(day) == day \in {Day1, Day2}
\* what a form may carry in a "days" field
RawDays == {EmptyString, Day1, Day2, SP \o Day1}
\* the same, for callers who type the field in by hand
TypedDays == {Day1, NoDate}

\* display names, and a title
NameA == <<1>>
NameB == <<2>>
RawNames == {EmptyString, NameA, NameB \o SP}
RawTitles == {SP, <<1>>}

\* poll identifiers randomID can return
PollA == <<1>>
PollB == <<2>>
PollIDs == {PollA, PollB}
\* identifiers and tokens randomID can return (response ids, creator tokens)
MintIDs == {<<10 + k>> : k \in 1..(2 * MaxRequests)}
\* tokens a visitor carries in the URL path
Visitor == <<9>>
VisitorTokens == {Visitor, Visitor \o SP}

\* strings.TrimSpace
RECURSIVE TrimLeft(_)
TrimLeft(s) == IF Len(s) > 0 /\ Head(s) = 0 THEN TrimLeft(Tail(s)) ELSE s

RECURSIVE TrimRight(_)
TrimRight(s) ==
    IF Len(s) > 0 /\ s[Len(s)] = 0 THEN TrimRight(SubSeq(s, 1, Len(s) - 1)) ELSE s

TrimSpace(s) == TrimRight(TrimLeft(s))

\* the < of Go strings (lexicographic by byte)
RECURSIVE StrLess(_, _)
StrLess(a, b) ==
    IF Len(b) = 0 THEN FALSE
    ELSE IF Len(a) = 0 THEN TRUE
    ELSE IF Head(a) # Head(b) THEN Head(a) < Head(b)
    ELSE StrLess(Tail(a), Tail(b))

\* sort.Strings on a short slice: insertion sort
RECURSIVE InsertString(_, _)
InsertString(x, s) ==
    IF Len(s) = 0 THEN <<x>>
    ELSE IF StrLess(x, Head(s)) THEN <<x>> \o s
    ELSE <<Head(s)>> \o InsertString(x, Tail(s))

RECURSIVE SortStrings(_)
SortStrings(s) ==
    IF Len(s) = 0 THEN <<>>
    ELSE InsertString(s[Len(s)], SortStrings(SubSeq(s, 1, Len(s) - 1)))

Range(s) == {s[i] : i \in 1..Len(s)}

----------------------------------------------------------------------------
(* Pure helpers of main.go *)

RECURSIVE normalizeLoop(_, _, _)
normalizeLoop(input, seen, days) ==
    IF Len(input) = 0 THEN days
    ELSE LET day == TrimSpace(Head(input)) IN
         IF day = EmptyString \/ day \in seen
         THEN normalizeLoop(Tail(input), seen, days)
         ELSE normalizeLoop(Tail(input), seen \cup {day}, Append(days, day))

\* normalizeDays that hands back the list as it came
normalizeDays_AsGiven(input) == input

\* normalizeDays without its map of the days seen
normalizeDays_KeepsRepeats(input) ==
    SortStrings(SelectSeq([i \in 1..Len(input) |-> TrimSpace(input[i])],
                          LAMBDA day : day # EmptyString))

\* normalizeDays without its sort.Strings
normalizeDays_Unsorted(input) == normalizeLoop(input, {}, <<>>)

normalizeDays(input) == SortStrings(normalizeLoop(input, {}, <<>>))

makeDaySet(days) == Range(days)

\* filterDays that hands back every allowed day
filterDays_AllAllowed(selected, allowed) == allowed

\* filterDays that keeps every selected day
filterDays_KeepsAll(selected, allowed) == selected

filterDays(selected, allowed) ==
    IF Len(selected) = 0 THEN selected
    ELSE SelectSeq(selected, LAMBDA day : day \in makeDaySet(allowed))

\* nameByDay[day]: the names of the responses, one for every entry of a
\* response's days that is the day, in the order of the responses
RECURSIVE nameByDay(_, _)
nameByDay(resps, day) ==
    IF Len(resps) = 0 THEN <<>>
    ELSE LET response == Head(resps)
             entries == {j \in 1..Len(response.Days) : response.Days[j] = day}
         IN [k \in 1..Cardinality(entries) |-> response.Name]
            \o nameByDay(Tail(resps), day)

\* summarizeAvailability that does not ask for a response
summarizeAvailability_Vacuous(days, resps) ==
    [d \in 1..Len(days) |->
        LET names == SortStrings(nameByDay(resps, days[d]))
        IN [Date |-> days[d], Names |-> names,
            AllAvailable |-> Len(names) = Len(resps)]]

\* summarizeAvailability that leaves the names in the order of the responses
summarizeAvailability_Unsorted(days, resps) ==
    [d \in 1..Len(days) |->
        LET names == nameByDay(resps, days[d])
        IN [Date |-> days[d], Names |-> names,
            AllAvailable |-> Len(resps) > 0 /\ Len(names) = Len(resps)]]

\* the summaries without their Label, which is the Date written out for
\* the page
summarizeAvailability(days, resps) ==
    [d \in 1..Len(days) |->
        LET names == SortStrings(nameByDay(resps, days[d]))
        IN [Date |-> days[d], Names |-> names,
            AllAvailable |-> Len(resps) > 0 /\ Len(names) = Len(resps)]]

equalDays(a, b) ==
    /\ Len(a) = Len(b)
    /\ \A i \in 1..Len(a) : a[i] = b[i]

\* findResponseByToken that never finds a response
findResponseByToken_Nil(resps, token) == 0

\* the index of the first response carrying the token, 0 for nil
findResponseByToken(resps, token) ==
    LET target == TrimSpace(token)
        hits == {i \in 1..Len(resps) : TrimSpace(resps[i].UserToken) = target}
    IN IF target = EmptyString \/ hits = {} THEN 0
       ELSE CHOOSE i \in hits : \A j \in hits : i <= j

\* isCreator that does not compare the token
isCreator_AnyToken(poll, token) == poll.CreatorToken # EmptyString

\* isCreator that takes equal tokens for the creator's, empty ones too
isCreator_EqualTokens(poll, token) == poll.CreatorToken = token

isCreator(poll, token) ==
    poll.CreatorToken # EmptyString /\ poll.CreatorToken = token

----------------------------------------------------------------------------
(* MemoryStorage: polls is the map s.polls, responses the map s.responses  *)
(* (a missing key reads as the empty slice).  Every call returns the new   *)
(* maps and the error.                                                     *)

errNil == "nil"
errNotFound == "not found"
errConflict == "conflict"
\* a failed backend call (network, cancelled context)
errUnavailable == "unavailable"

\* CreatePoll that stores the poll whether or not the identifier is taken
CreatePoll_Overwrite(ps, poll) ==
    [err |-> errNil,
     polls |-> [id \in DOMAIN ps \cup {poll.ID} |->
                   IF id = poll.ID THEN poll ELSE ps[id]]]

CreatePoll(ps, poll) ==
    IF poll.ID \in DOMAIN ps
    THEN [err |-> errConflict, polls |-> ps]
    ELSE [err |-> errNil,
          polls |-> [id \in DOMAIN ps \cup {poll.ID} |->
                        IF id = poll.ID THEN poll ELSE ps[id]]]

\* sort.Slice(responses, CreatedAt.Before) on a short slice: insertion sort
RECURSIVE InsertByCreatedAt(_, _)
InsertByCreatedAt(x, s) ==
    IF Len(s) = 0 THEN <<x>>
    ELSE IF x.CreatedAt < Head(s).CreatedAt THEN <<x>> \o s
    ELSE <<Head(s)>> \o InsertByCreatedAt(x, Tail(s))

RECURSIVE SortByCreatedAt(_)
SortByCreatedAt(s) ==
    IF Len(s) = 0 THEN <<>>
    ELSE InsertByCreatedAt(s[Len(s)], SortByCreatedAt(SubSeq(s, 1, Len(s) - 1)))

NoPoll == [ID |-> EmptyString, Title |-> EmptyString, Days |-> <<>>,
           CreatorToken |-> EmptyString, CreatedAt |-> 0]

\* GetPoll that returns the responses in the order of the slice
GetPoll_AsStored(ps, rs, pollID) ==
    IF pollID \notin DOMAIN ps
    THEN [err |-> errNotFound, poll |-> NoPoll, responses |-> <<>>]
    ELSE [err |-> errNil, poll |-> ps[pollID], responses |-> rs[pollID]]

GetPoll(ps, rs, pollID) ==
    IF pollID \notin DOMAIN ps
    THEN [err |-> errNotFound, poll |-> NoPoll, responses |-> <<>>]
    ELSE [err |-> errNil, poll |-> ps[pollID], responses |-> SortByCreatedAt(rs[pollID])]

\* AddResponse that appends whether or not the identifier is stored
AddResponse_Append(ps, rs, pollID, response) ==
    IF pollID \notin DOMAIN ps
    THEN [err |-> errNotFound, responses |-> rs]
    ELSE [err |-> errNil,
          responses |-> [rs EXCEPT ![pollID] = Append(rs[pollID], response)]]

AddResponse(ps, rs, pollID, response) ==
    IF pollID \notin DOMAIN ps
    THEN [err |-> errNotFound, responses |-> rs]
    ELSE LET cur == rs[pollID]
             hits == {i \in 1..Len(cur) : cur[i].ID = response.ID}
         IN IF hits # {}
            THEN LET i == CHOOSE k \in hits : \A j \in hits : k <= j
                 IN [err |-> errNil,
                     responses |-> [rs EXCEPT ![pollID] = [cur EXCEPT ![i] = response]]]
            ELSE [err |-> errNil,
                  responses |-> [rs EXCEPT ![pollID] = Append(cur, response)]]

\* UpdatePollDays that stores a new Poll of the identifier and the days
UpdatePollDays_NewPoll(ps, pollID, days) ==
    IF pollID \notin DOMAIN ps
    THEN [err |-> errNotFound, polls |-> ps]
    ELSE [err |-> errNil,
          polls |-> [ps EXCEPT ![pollID] = [NoPoll EXCEPT !.ID = pollID, !.Days = days]]]

UpdatePollDays(ps, pollID, days) ==
    IF pollID \notin DOMAIN ps
    THEN [err |-> errNotFound, polls |-> ps]
    ELSE [err |-> errNil, polls |-> [ps EXCEPT ![pollID].Days = days]]

\* DeleteResponse that reports a response it does not find
DeleteResponse_AbsentNotFound(ps, rs, pollID, responseID) ==
    IF pollID \notin DOMAIN ps \/ \A i \in 1..Len(rs[pollID]) : rs[pollID][i].ID # responseID
    THEN [err |-> errNotFound, responses |-> rs]
    ELSE [err |-> errNil,
          responses |-> [rs EXCEPT ![pollID] =
                            SelectSeq(rs[pollID], LAMBDA r : r.ID # responseID)]]

\* DeleteResponse that looks for the identifier in every poll
DeleteResponse_EveryPoll(ps, rs, pollID, responseID) ==
    IF pollID \notin DOMAIN ps
    THEN [err |-> errNotFound, responses |-> rs]
    ELSE [err |-> errNil,
          responses |-> [id \in DOMAIN rs |->
                            SelectSeq(rs[id], LAMBDA r : r.ID # responseID)]]

\* DeleteResponse that drops every response of the poll
DeleteResponse_ClearsPoll(ps, rs, pollID, responseID) ==
    IF pollID \notin DOMAIN ps
    THEN [err |-> errNotFound, responses |-> rs]
    ELSE [err |-> errNil, responses |-> [rs EXCEPT ![pollID] = <<>>]]

DeleteResponse(ps, rs, pollID, responseID) ==
    IF pollID \notin DOMAIN ps
    THEN [err |-> errNotFound, responses |-> rs]
    ELSE LET cur == rs[pollID]
             hits == {i \in 1..Len(cur) : cur[i].ID = responseID}
         IN IF hits # {}
            THEN LET i == CHOOSE k \in hits : \A j \in hits : k <= j
                 IN [err |-> errNil,
                     responses |-> [rs EXCEPT ![pollID] =
                                       SubSeq(cur, 1, i - 1) \o SubSeq(cur, i + 1, Len(cur))]]
            ELSE [err |-> errNil, responses |-> rs]

----------------------------------------------------------------------------
(* DynamoDBStorage: the table has one partition per poll.  polls[id] is    *)
(* the item of the partition of id with sort key "POLL", responses[id] its *)
(* items with a sort key "RESP#<response id>", in the order of the sort    *)
(* key, which is the order a Query returns them in.  The attribute         *)
(* created_at holds the RFC3339 text of the time: whole seconds.           *)

\* time.Format(time.RFC3339), the text standing for its number of seconds
formatRFC3339(t) == t \div TicksPerSecond

\* parseTime of a text formatRFC3339 wrote
parseTime(value) == value * TicksPerSecond

\* what PutItem returns when its ConditionExpression does not hold
errConditionalCheckFailed == "ConditionalCheckFailedException"

DynamoCreatePoll(ps, poll) ==
    IF poll.ID \in DOMAIN ps
    THEN [err |-> errConditionalCheckFailed, polls |-> ps]
    ELSE [err |-> errNil,
          polls |-> [id \in DOMAIN ps \cup {poll.ID} |->
                        IF id = poll.ID
                        THEN [poll EXCEPT !.CreatedAt = formatRFC3339(poll.CreatedAt)]
                        ELSE ps[id]]]

\* the items of a Query with created_at parsed
ParsedResponses(rows) ==
    [i \in 1..Len(rows) |-> [rows[i] EXCEPT !.CreatedAt = parseTime(rows[i].CreatedAt)]]

\* DynamoGetPoll that returns the items it read, a poll item or not
DynamoGetPoll_AnyItems(ps, rs, pollID) ==
    [err |-> errNil,
     poll |-> IF pollID \in DOMAIN ps THEN ps[pollID] ELSE NoPoll,
     responses |-> SortByCreatedAt(ParsedResponses(rs[pollID]))]

DynamoGetPoll(ps, rs, pollID) ==
    IF pollID \notin DOMAIN ps \/ ps[pollID].ID = EmptyString
    THEN [err |-> errNotFound, poll |-> NoPoll, responses |-> <<>>]
    ELSE [err |-> errNil,
          poll |-> [ps[pollID] EXCEPT !.CreatedAt = parseTime(ps[pollID].CreatedAt)],
          responses |-> SortByCreatedAt(ParsedResponses(rs[pollID]))]

\* PutItem of a response item: it takes the place of the item with its sort
\* key, or its place in the order of the sort keys
RECURSIVE PutResponseItem(_, _)
PutResponseItem(item, rows) ==
    IF Len(rows) = 0 THEN <<item>>
    ELSE IF Head(rows).ID = item.ID THEN <<item>> \o Tail(rows)
    ELSE IF StrLess(item.ID, Head(rows).ID) THEN <<item>> \o rows
    ELSE <<Head(rows)>> \o PutResponseItem(item, Tail(rows))

DynamoAddResponse(ps, rs, pollID, response) ==
    LET item == [response EXCEPT !.CreatedAt = formatRFC3339(response.CreatedAt)]
    IN [err |-> errNil,
        responses |-> [rs EXCEPT ![pollID] = PutResponseItem(item, rs[pollID])]]

\* DynamoUpdatePollDays that puts a new item of the key and the days in the
\* place of the poll item
DynamoUpdatePollDays_PutItem(ps, pollID, days) ==
    [err |-> errNil,
     polls |-> [id \in DOMAIN ps \cup {pollID} |->
                   IF id # pollID THEN ps[id] ELSE [NoPoll EXCEPT !.Days = days]]]

\* UpdateItem writes the attribute into the item of the key, and makes the
\* item (with the key and the attribute alone) when there is none
DynamoUpdatePollDays(ps, pollID, days) ==
    [err |-> errNil,
     polls |-> [id \in DOMAIN ps \cup {pollID} |->
                   IF id # pollID THEN ps[id]
                   ELSE IF pollID \in DOMAIN ps THEN [ps[pollID] EXCEPT !.Days = days]
                   ELSE [NoPoll EXCEPT !.Days = days]]]

DynamoDeleteResponse(ps, rs, pollID, responseID) ==
    [err |-> errNil,
     responses |-> [rs EXCEPT ![pollID] =
                       SelectSeq(rs[pollID], LAMBDA item : item.ID # responseID)]]

----------------------------------------------------------------------------
(* Requests *)

\* the "days" lists a form may carry
DayLists(env) == UNION {[1..n -> env.days] : n \in 0..MaxInputDays}

NoResponse == [ID |-> EmptyString, Name |-> EmptyString, Days |-> <<>>,
               UserToken |-> EmptyString, CreatedAt |-> 0]

\* the PollView of no page: what of a PollView the model keeps is the
\* summaries and the creator flag
NoView == [Summaries |-> <<>>, IsCreator |-> FALSE]

\* the nil slice: no backing array (array 0), no element
NilSlice == [arr |-> 0, len |-> 0]

\* the locals of a request (or of a storage call) that outlive a step
NoLoc == [op |-> "none", pollID |-> EmptyString, token |-> EmptyString,
          name |-> EmptyString, days |-> <<>>, oldDays |-> <<>>, resp |-> NoResponse,
          responseID |-> EmptyString, snapshot |-> <<>>, i |-> 0, err |-> errNil,
          poll |-> NoPoll, slice |-> NilSlice, form |-> <<>>,
          view |-> NoView]

\* identifiers and tokens held by the store or by a request in flight
InUse ==
    {polls[id].CreatorToken : id \in DOMAIN polls}
    \cup UNION {{rs.ID, rs.UserToken} : rs \in UNION {Range(responses[id]) : id \in PollIDs}}
    \cup UNION {{loc[p].token, loc[p].resp.ID, loc[p].resp.UserToken, loc[p].responseID}
                \cup UNION {{rs.ID, rs.UserToken} : rs \in Range(loc[p].snapshot)}
                : p \in Procs}

\* randomID: 128 random bits, so a value no one holds (the least such, the
\* values being interchangeable)
randomID ==
    LET free == MintIDs \ InUse
    IN CHOOSE id \in free : \A other \in free : id = other \/ StrLess(id, other)

\* time.Now(): a reading later than every reading the store or a request in
\* flight holds (the least such: only the order of the readings is observed)
LiveTimes ==
    {polls[id].CreatedAt : id \in DOMAIN polls}
    \cup {rs.CreatedAt : rs \in UNION {Range(responses[id]) : id \in PollIDs}}
    \cup UNION {{loc[p].resp.CreatedAt}
                \cup {rs.CreatedAt : rs \in Range(loc[p].snapshot)} : p \in Procs}

timeNow == 1 + (CHOOSE t \in LiveTimes \cup {0} : \A u \in LiveTimes : u <= t)

\* what randomID returns when rand.Read fails: "fallback-" and the clock's
\* reading, a value anyone who knows the time can write down
FallbackIDs == {<<50 + t>> : t \in 1..(4 * MaxRequests)}
fallbackID == <<50 + timeNow>>

\* the values a call of randomID may return
randomIDs(env) == {randomID} \cup (IF FALSE \in env.rand THEN {fallbackID} ELSE {})

\* tokens a caller can put in the URL path
CallerTokens(env) == env.visitors \cup issued \cup {EmptyString}

\* the storage backends of newStorage
Backends == {"memory", "dynamodb"}

\* the last call made on the Storage interface directly, with what it returned
NoCall == [op |-> "none", pollID |-> EmptyString, err |-> errNil,
           poll |-> NoPoll, responses |-> <<>>]

\* the backing arrays a run can hold at once: one per poll and one per call
\* in flight, and one being allocated
ArrayIDs == 1..(Cardinality(PollIDs) + MaxProcs + 1)

\* make(map[string][]Response): no array, every key reads as the nil slice
NoHeap == [arrays |-> [a \in ArrayIDs |-> <<>>], hdr |-> [id \in PollIDs |-> NilSlice]]

\* an empty store behind a server no request has reached
Start ==
    /\ polls = [id \in {} |-> NoPoll]
    /\ responses = [id \in PollIDs |-> <<>>]
    /\ pc = [p \in Procs |-> "idle"]
    /\ loc = [p \in Procs |-> NoLoc]
    /\ result = [p \in Procs |-> "none"]
    /\ started = 0
    /\ issued = {}
    /\ call = NoCall
    /\ heap = NoHeap

\* USE_MEMORY_STORE=true
Init == Start /\ backend = "memory"

\* the request of p ends with the given HTTP answer.  rest = "done": the
\* answer and the locals stay to be looked at until Return; rest = "idle":
\* the goroutine is gone at once
Finish(p, rest, answer, l) ==
    /\ started' = IF pc[p] = "idle" /\ l.op = "create" /\ l.pollID # EmptyString
                  THEN started + 1 ELSE started
    /\ pc' = [pc EXCEPT ![p] = rest]
    /\ result' = [result EXCEPT ![p] = IF rest = "done" THEN answer ELSE "none"]
    /\ loc' = [loc EXCEPT ![p] = IF rest = "done" THEN l ELSE NoLoc]
    /\ issued' = IF l.op = "create" /\ answer = "redirect"
                 THEN issued \cup {l.token} ELSE issued
    /\ UNCHANGED <<backend, call, heap>>

Goto(p, label, l) ==
    /\ started' = IF pc[p] = "idle" THEN started + 1 ELSE started
    /\ pc' = [pc EXCEPT ![p] = label]
    /\ loc' = [loc EXCEPT ![p] = l]
    /\ UNCHANGED <<result, issued, backend, call, heap>>

\* response identifiers a creator can put in the "response_id" field
UnknownID == <<8>>
ResponseIDInputs ==
    {rs.ID : rs \in UNION {Range(responses[id]) : id \in PollIDs}}
    \cup {EmptyString, UnknownID, SP \o UnknownID}

\* the first index from i on of a response update-dates has to rewrite
\* (Len + 1 when there is none)
NextPruned(snapshot, days, i) ==
    LET todo == {j \in i..Len(snapshot) :
                    ~equalDays(snapshot[j].Days, filterDays(snapshot[j].Days, days))}
    IN IF todo = {} THEN Len(snapshot) + 1
       ELSE CHOOSE j \in todo : \A k \in todo : j <= k

(* handleCreatePoll, up to and with storage.CreatePoll *)
CreatePollRequest(p, env) ==
    /\ pc[p] = "idle"
    /\ UNCHANGED responses
    /\ \E rawTitle \in RawTitles, rawCreator \in env.names, rawDays \in DayLists(env) :
         LET title == TrimSpace(rawTitle)
             creator == TrimSpace(rawCreator)
             selectedDays == normalizeDays(rawDays)
             l == [NoLoc EXCEPT !.op = "create"]
         IN IF title = EmptyString \/ creator = EmptyString \/ Len(selectedDays) = 0
            THEN /\ Finish(p, env.rest, "badrequest", l)
                 /\ UNCHANGED polls
            ELSE /\ started < MaxRequests
                 /\ \E id \in env.pollIDs, fail \in env.fails,
                       creatorToken \in randomIDs(env) :
                      LET poll == [ID |-> id, Title |-> title, Days |-> selectedDays,
                                   CreatorToken |-> creatorToken, CreatedAt |-> timeNow]
                          r == CreatePoll(polls, poll)
                          l2 == [l EXCEPT !.pollID = id, !.token = poll.CreatorToken,
                                          !.name = creator, !.days = selectedDays]
                      IN IF fail
                         THEN /\ Finish(p, env.rest, "error", [l2 EXCEPT !.err = errUnavailable])
                              /\ UNCHANGED polls
                         ELSE IF r.err # errNil
                         THEN /\ Finish(p, env.rest, "error", [l2 EXCEPT !.err = r.err])
                              /\ UNCHANGED polls
                         ELSE /\ polls' = r.polls
                              /\ Goto(p, "CreatorResponse", l2)

\* the response handleCreatePoll makes for the creator: the creator's name,
\* the days of the poll, the creator token as its user token
creatorResponse_OwnToken(id, creator, selectedDays, creatorToken, now) ==
    [ID |-> id, Name |-> creator, Days |-> selectedDays, UserToken |-> id,
     CreatedAt |-> now]

creatorResponse(id, creator, selectedDays, creatorToken, now) ==
    [ID |-> id, Name |-> creator, Days |-> selectedDays, UserToken |-> creatorToken,
     CreatedAt |-> now]

(* handleCreatePoll: the creator's response and storage.AddResponse *)
CreatorResponse(p, env) ==
    /\ pc[p] = "CreatorResponse"
    /\ UNCHANGED polls
    /\ \E fail \in env.fails, id \in randomIDs(env) :
         LET made == creatorResponse(id, loc[p].name, loc[p].days, loc[p].token,
                                     timeNow)
             r == AddResponse(polls, responses, loc[p].pollID, made)
             l == [loc[p] EXCEPT !.resp = made]
         IN IF fail
            THEN /\ Finish(p, env.rest, "error", [l EXCEPT !.err = errUnavailable])
                 /\ UNCHANGED responses
            ELSE IF r.err # errNil
            THEN /\ Finish(p, env.rest, "error", [l EXCEPT !.err = r.err])
                 /\ UNCHANGED responses
            ELSE /\ responses' = r.responses
                 /\ Finish(p, env.rest, "redirect", l)

(* handlePoll, POST: the part every form shares, up to and with the first  *)
(* storage.GetPoll.  It ends the request, or hands the poll and its        *)
(* responses to the branch of the form                                     *)
PostEnds(p, env, l, userToken, fail, g) ==
    IF userToken = EmptyString
    THEN Finish(p, env.rest, "redirect-poll", l)
    ELSE IF fail
    THEN Finish(p, env.rest, "error", [l EXCEPT !.err = errUnavailable])
    ELSE Finish(p, env.rest, "invalid", [l EXCEPT !.err = g.err])

\* PostGoesOn that goes on without the poll
PostGoesOn_AnyPoll(userToken, fail, g) ==
    userToken # EmptyString /\ ~fail

PostGoesOn(userToken, fail, g) ==
    userToken # EmptyString /\ ~fail /\ g.err = errNil

\* the "days" field of the form as the request got it, kept where the
\* locals of a request are looked at after its answer
FormKept(env, rawDays) == IF env.rest = "done" THEN rawDays ELSE <<>>

(* handlePoll, POST without "action": submit-response, up to the call of   *)
(* storage.AddResponse                                                     *)
PostSubmit(p, env) ==
    /\ pc[p] = "idle"
    /\ UNCHANGED <<polls, responses>>
    /\ \E pollID \in env.pollIDs, userToken \in CallerTokens(env), fail \in env.fails :
         LET l == [NoLoc EXCEPT !.op = "submit", !.pollID = pollID, !.token = userToken]
             g == GetPoll(polls, responses, pollID)
         IN IF ~PostGoesOn(userToken, fail, g)
            THEN PostEnds(p, env, l, userToken, fail, g)
            ELSE \E rawName \in env.names, rawDays \in DayLists(env),
                    id \in randomIDs(env) :
                   LET name == TrimSpace(rawName)
                       selectedDays == filterDays(normalizeDays(rawDays), g.poll.Days)
                       existing == findResponseByToken(g.responses, userToken)
                       response ==
                           [ID |-> IF existing # 0 THEN g.responses[existing].ID
                                   ELSE id,
                            Name |-> name,
                            Days |-> selectedDays,
                            UserToken |-> userToken,
                            CreatedAt |-> IF existing # 0
                                          THEN g.responses[existing].CreatedAt
                                          ELSE timeNow]
                   IN IF name = EmptyString \/ Len(selectedDays) = 0
                      THEN Finish(p, env.rest, "validation",
                                  [l EXCEPT !.name = name, !.form = FormKept(env, rawDays),
                                            !.snapshot = g.responses])
                      ELSE /\ started < MaxRequests
                           /\ Goto(p, "SubmitAddResponse",
                                   [l EXCEPT !.name = name, !.days = selectedDays,
                                             !.snapshot = g.responses,
                                             !.resp = response, !.form = FormKept(env, rawDays)])

(* submit-response: storage.AddResponse *)
SubmitAddResponse(p, env) ==
    /\ pc[p] = "SubmitAddResponse"
    /\ UNCHANGED polls
    /\ \E fail \in env.fails :
         LET r == AddResponse(polls, responses, loc[p].pollID, loc[p].resp)
         IN IF fail
            THEN /\ Finish(p, env.rest, "error", [loc[p] EXCEPT !.err = errUnavailable])
                 /\ UNCHANGED responses
            ELSE IF r.err # errNil
            THEN /\ Finish(p, env.rest, "error", [loc[p] EXCEPT !.err = r.err])
                 /\ UNCHANGED responses
            ELSE /\ responses' = r.responses
                 /\ Goto(p, "SubmitReload", loc[p])

(* submit-response: the second storage.GetPoll and the rendering *)
SubmitReload(p, env) ==
    /\ pc[p] = "SubmitReload"
    /\ UNCHANGED <<polls, responses>>
    /\ \E fail \in env.fails :
         LET g == GetPoll(polls, responses, loc[p].pollID)
         IN IF fail
            THEN Finish(p, env.rest, "error", [loc[p] EXCEPT !.err = errUnavailable])
            ELSE IF g.err # errNil
            THEN Finish(p, env.rest, "error", [loc[p] EXCEPT !.err = g.err])
            ELSE Finish(p, env.rest, "ok", loc[p])

(* handlePoll, POST with action=delete-response, up to the call of         *)
(* storage.DeleteResponse                                                  *)
PostDeleteResponse(p, env) ==
    /\ pc[p] = "idle"
    /\ UNCHANGED <<polls, responses>>
    /\ \E pollID \in env.pollIDs, userToken \in CallerTokens(env), fail \in env.fails :
         LET l == [NoLoc EXCEPT !.op = "delete-response", !.pollID = pollID,
                                !.token = userToken]
             g == GetPoll(polls, responses, pollID)
         IN IF ~PostGoesOn(userToken, fail, g)
            THEN PostEnds(p, env, l, userToken, fail, g)
            ELSE IF ~isCreator(g.poll, userToken)
            THEN Finish(p, env.rest, "forbidden", l)
            ELSE \E rawID \in ResponseIDInputs :
                   LET responseID == TrimSpace(rawID)
                   IN IF responseID = EmptyString
                      THEN Finish(p, env.rest, "badrequest", l)
                      ELSE /\ started < MaxRequests
                           /\ Goto(p, "DeleteResponse",
                                   [l EXCEPT !.responseID = responseID])

(* delete-response: storage.DeleteResponse *)
DeleteResponseCall(p, env) ==
    /\ pc[p] = "DeleteResponse"
    /\ UNCHANGED polls
    /\ \E fail \in env.fails :
         LET r == DeleteResponse(polls, responses, loc[p].pollID, loc[p].responseID)
         IN IF fail
            THEN /\ Finish(p, env.rest, "error", [loc[p] EXCEPT !.err = errUnavailable])
                 /\ UNCHANGED responses
            ELSE IF r.err # errNil
            THEN /\ Finish(p, env.rest, "error", [loc[p] EXCEPT !.err = r.err])
                 /\ UNCHANGED responses
            ELSE /\ responses' = r.responses
                 /\ Finish(p, env.rest, "redirect", loc[p])

(* handlePoll, POST with action=update-dates, up to the call of            *)
(* storage.UpdatePollDays                                                  *)
PostUpdateDates(p, env) ==
    /\ pc[p] = "idle"
    /\ UNCHANGED <<polls, responses>>
    /\ \E pollID \in env.pollIDs, userToken \in CallerTokens(env), fail \in env.fails :
         LET l == [NoLoc EXCEPT !.op = "update-dates", !.pollID = pollID,
                                !.token = userToken]
             g == GetPoll(polls, responses, pollID)
         IN IF ~PostGoesOn(userToken, fail, g)
            THEN PostEnds(p, env, l, userToken, fail, g)
            ELSE IF ~isCreator(g.poll, userToken)
            THEN Finish(p, env.rest, "forbidden", l)
            ELSE \E rawDays \in DayLists(env) :
                   LET updatedDays == normalizeDays(rawDays)
                   IN IF Len(updatedDays) = 0
                      THEN Finish(p, env.rest, "badrequest",
                                  [l EXCEPT !.form = FormKept(env, rawDays)])
                      ELSE /\ started < MaxRequests
                           /\ Goto(p, "UpdatePollDays",
                                   [l EXCEPT !.days = updatedDays,
                                             !.oldDays = g.poll.Days,
                                             !.snapshot = g.responses,
                                             !.form = FormKept(env, rawDays)])

(* update-dates: storage.UpdatePollDays, then the loop over the responses  *)
(* read at the start, up to the first one it has to rewrite                *)
UpdatePollDaysCall(p, env) ==
    /\ pc[p] = "UpdatePollDays"
    /\ UNCHANGED responses
    /\ \E fail \in env.fails :
         LET r == UpdatePollDays(polls, loc[p].pollID, loc[p].days)
             i == NextPruned(loc[p].snapshot, loc[p].days, 1)
         IN IF fail
            THEN /\ Finish(p, env.rest, "error", [loc[p] EXCEPT !.err = errUnavailable])
                 /\ UNCHANGED polls
            ELSE IF r.err # errNil
            THEN /\ Finish(p, env.rest, "error", [loc[p] EXCEPT !.err = r.err])
                 /\ UNCHANGED polls
            ELSE /\ polls' = r.polls
                 /\ IF i > Len(loc[p].snapshot)
                    THEN Finish(p, env.rest, "redirect", loc[p])
                    ELSE Goto(p, "PruneResponse", [loc[p] EXCEPT !.i = i])

\* PrunedResponse that keeps the days of the response
PrunedResponse_Unfiltered(response, updatedDays) == response

\* PrunedResponse that leaves the response no day
PrunedResponse_Cleared(response, updatedDays) == [response EXCEPT !.Days = <<>>]

\* the response update-dates writes back for a response it read
PrunedResponse(response, updatedDays) ==
    [response EXCEPT !.Days = filterDays(response.Days, updatedDays)]

(* update-dates: storage.AddResponse of one pruned response, then the loop *)
(* up to the next one                                                      *)
PruneResponse(p, env) ==
    /\ pc[p] = "PruneResponse"
    /\ UNCHANGED polls
    /\ \E fail \in env.fails :
         LET response == PrunedResponse(loc[p].snapshot[loc[p].i], loc[p].days)
             r == AddResponse(polls, responses, loc[p].pollID, response)
             i == NextPruned(loc[p].snapshot, loc[p].days, loc[p].i + 1)
         IN IF fail
            THEN /\ Finish(p, env.rest, "error", [loc[p] EXCEPT !.err = errUnavailable])
                 /\ UNCHANGED responses
            ELSE IF r.err # errNil
            THEN /\ Finish(p, env.rest, "error", [loc[p] EXCEPT !.err = r.err])
                 /\ UNCHANGED responses
            ELSE /\ responses' = r.responses
                 /\ IF i > Len(loc[p].snapshot)
                    THEN Finish(p, env.rest, "redirect", [loc[p] EXCEPT !.i = i])
                    ELSE Goto(p, "PruneResponse", [loc[p] EXCEPT !.i = i])

(* handlePoll, POST with an action that is neither of the two *)
PostUnknownAction(p, env) ==
    /\ pc[p] = "idle"
    /\ UNCHANGED <<polls, responses>>
    /\ \E pollID \in env.pollIDs, userToken \in CallerTokens(env), fail \in env.fails :
         LET l == [NoLoc EXCEPT !.op = "unknown", !.pollID = pollID, !.token = userToken]
             g == GetPoll(polls, responses, pollID)
         IN IF ~PostGoesOn(userToken, fail, g)
            THEN PostEnds(p, env, l, userToken, fail, g)
            ELSE IF ~isCreator(g.poll, userToken)
            THEN Finish(p, env.rest, "forbidden", l)
            ELSE Finish(p, env.rest, "badrequest", l)

(* the answer is delivered; the goroutine of the request ends *)
\* buildPollView: the summaries and the creator flag of the page
buildPollView(poll, resps, viewerToken) ==
    [Summaries |-> summarizeAvailability(poll.Days, resps),
     IsCreator |-> isCreator(poll, viewerToken)]

(* handlePoll, GET: the redirect to the caller's own URL, or               *)
(* storage.GetPoll and the page with the availability summaries            *)
GetPollPage(p, env) ==
    /\ pc[p] = "idle"
    /\ UNCHANGED <<polls, responses>>
    /\ \E pollID \in env.pollIDs, userToken \in CallerTokens(env), fail \in env.fails :
         LET l == [NoLoc EXCEPT !.op = "get", !.pollID = pollID, !.token = userToken]
             g == GetPoll(polls, responses, pollID)
         IN IF userToken = EmptyString
            THEN Finish(p, env.rest, "redirect-token", l)
            ELSE IF fail
            THEN Finish(p, env.rest, "error", [l EXCEPT !.err = errUnavailable])
            ELSE IF g.err # errNil
            THEN Finish(p, env.rest, "invalid", [l EXCEPT !.err = g.err])
            ELSE Finish(p, env.rest, "ok",
                        [l EXCEPT !.snapshot = g.responses,
                                  !.days = g.poll.Days,
                                  !.view = buildPollView(g.poll, g.responses, userToken)])

Return(p) ==
    /\ pc[p] = "done"
    /\ pc' = [pc EXCEPT ![p] = "idle"]
    /\ loc' = [loc EXCEPT ![p] = NoLoc]
    /\ result' = [result EXCEPT ![p] = "none"]
    /\ UNCHANGED <<polls, responses, started, issued, backend, call, heap>>

Step(p, env) ==
    \/ CreatePollRequest(p, env)
    \/ CreatorResponse(p, env)
    \/ PostSubmit(p, env)
    \/ SubmitAddResponse(p, env)
    \/ SubmitReload(p, env)
    \/ PostDeleteResponse(p, env)
    \/ DeleteResponseCall(p, env)
    \/ PostUpdateDates(p, env)
    \/ UpdatePollDaysCall(p, env)
    \/ PruneResponse(p, env)
    \/ PostUnknownAction(p, env)

\* requests are handled concurrently, one goroutine each
\* (on one poll, by its creator and one visitor, the backend answering every
\* call)
Concurrent ==
    [rest |-> "idle", pollIDs |-> {PollA}, names |-> RawNames,
     visitors |-> {Visitor}, fails |-> {FALSE}, days |-> RawDays,
     rand |-> {TRUE}]

Next == \E p \in Procs : Step(p, Concurrent)

Spec == Init /\ [][Next]_vars

\* requests arrive one after the other: a request starts and runs while no
\* other is in flight, and its answer is looked at before the next starts
\* (a backend call may fail).  One request being in flight at a time, they
\* all run in the first slot of Procs
Sequential ==
    [rest |-> "done", pollIDs |-> {PollA}, names |-> RawNames,
     visitors |-> VisitorTokens, fails |-> BOOLEAN, days |-> RawDays,
     rand |-> {TRUE}]

SeqNext ==
    \E p \in {1} : Step(p, Sequential) \/ Return(p)

SeqSpec == Init /\ [][SeqNext]_vars

\* requests arrive one after the other, from callers who type the "days"
\* field in by hand, so that it may hold a string that is no date (the
\* backend answering every call)
Typed ==
    [rest |-> "done", pollIDs |-> {PollA}, names |-> {NameA},
     visitors |-> {Visitor}, fails |-> {FALSE}, days |-> TypedDays,
     rand |-> {TRUE}]

TypedNext ==
    \E p \in {1} : Step(p, Typed) \/ Return(p)

TypedSpec == Init /\ [][TypedNext]_vars

\* requests arrive one after the other, among them the GET of the poll's
\* page (the backend answering every call)
Paged ==
    [rest |-> "done", pollIDs |-> {PollA}, names |-> {NameA, NameB},
     visitors |-> {Visitor}, fails |-> {FALSE}, days |-> {Day1, Day2},
     rand |-> {TRUE}]

PageNext ==
    \E p \in {1} : Step(p, Paged) \/ GetPollPage(p, Paged) \/ Return(p)

PageSpec == Init /\ [][PageNext]_vars

\* requests arrive one after the other while the system's random source
\* may fail (the backend answering every call)
Starved ==
    [rest |-> "done", pollIDs |-> {PollA}, names |-> {NameA},
     visitors |-> {Visitor}, fails |-> {FALSE}, days |-> {Day1, Day2},
     rand |-> BOOLEAN]

StarvedNext ==
    \E p \in {1} : Step(p, Starved) \/ Return(p)

StarvedSpec == Init /\ [][StarvedNext]_vars

\* requests arrive one after the other at a server that holds up to two
\* polls (the backend answering every call)
TwoPolls ==
    [rest |-> "done", pollIDs |-> {PollA, PollB}, names |-> {NameA},
     visitors |-> {Visitor}, fails |-> {FALSE}, days |-> {Day1, Day2},
     rand |-> {TRUE}]

TwoPollNext ==
    \E p \in {1} : Step(p, TwoPolls) \/ Return(p)

TwoPollSpec == Init /\ [][TwoPollNext]_vars

----------------------------------------------------------------------------
(* Calls on the Storage interface itself, one after the other, on either   *)
(* backend                                                                 *)

StorageInit == Start /\ backend \in Backends

\* the polls and responses a caller passes in
PollInputs ==
    {[ID |-> id, Title |-> title, Days |-> <<Day1>>, CreatorToken |-> <<11>>,
      CreatedAt |-> t] : id \in PollIDs, title \in {NameA, NameB}, t \in 1..MaxTime}

ResponseInputs ==
    {[ID |-> id, Name |-> NameA, Days |-> <<Day1>>, UserToken |-> Visitor,
      CreatedAt |-> t] : id \in {<<12>>, <<13>>}, t \in 1..MaxTime}

\* the call is made: the store is as the call left it and what it returned
\* is kept
Called(op, pollID, err, ps, rs, poll, resps) ==
    /\ started' = started + 1
    /\ polls' = ps
    /\ responses' = rs
    /\ call' = [op |-> op, pollID |-> pollID, err |-> err, poll |-> poll,
                responses |-> resps]
    /\ UNCHANGED <<pc, loc, result, issued, backend, heap>>

CallCreatePoll ==
    /\ started < MaxCalls
    /\ \E poll \in PollInputs :
           LET r == IF backend = "memory" THEN CreatePoll(polls, poll)
                    ELSE DynamoCreatePoll(polls, poll)
           IN Called("CreatePoll", poll.ID, r.err, r.polls, responses, poll, <<>>)

CallGetPoll ==
    /\ started < MaxCalls
    /\ \E pollID \in PollIDs :
           LET g == IF backend = "memory" THEN GetPoll(polls, responses, pollID)
                    ELSE DynamoGetPoll(polls, responses, pollID)
           IN Called("GetPoll", pollID, g.err, polls, responses, g.poll, g.responses)

CallAddResponse ==
    /\ started < MaxCalls
    /\ \E pollID \in PollIDs, response \in ResponseInputs :
           LET r == IF backend = "memory"
                    THEN AddResponse(polls, responses, pollID, response)
                    ELSE DynamoAddResponse(polls, responses, pollID, response)
           IN Called("AddResponse", pollID, r.err, polls, r.responses, NoPoll, <<response>>)

CallUpdatePollDays ==
    /\ started < MaxCalls
    /\ \E pollID \in PollIDs, days \in {<<Day1>>, <<Day2>>} :
           LET r == IF backend = "memory" THEN UpdatePollDays(polls, pollID, days)
                    ELSE DynamoUpdatePollDays(polls, pollID, days)
           IN Called("UpdatePollDays", pollID, r.err, r.polls, responses, NoPoll, <<>>)

CallDeleteResponse ==
    /\ started < MaxCalls
    /\ \E pollID \in PollIDs, responseID \in {<<12>>, <<13>>} :
           LET r == IF backend = "memory"
                    THEN DeleteResponse(polls, responses, pollID, responseID)
                    ELSE DynamoDeleteResponse(polls, responses, pollID, responseID)
           IN Called("DeleteResponse", pollID, r.err, polls, r.responses, NoPoll,
                     <<[NoResponse EXCEPT !.ID = responseID]>>)

StorageNext ==
    \/ CallCreatePoll
    \/ CallGetPoll
    \/ CallAddResponse
    \/ CallUpdatePollDays
    \/ CallDeleteResponse

StorageSpec == StorageInit /\ [][StorageNext]_vars

----------------------------------------------------------------------------
(* Calls on the Storage interface that overlap in time, each in its own    *)
(* goroutine.  A call of DynamoDBStorage is one request to the table: one  *)
(* step.  A call of MemoryStorage holds no lock, so it is split at its     *)
(* accesses to the maps: the lookup (with the scan of the slice), the      *)
(* write into the backing array, the assignment to the map.                *)

\* the elements a slice header shows
Elems(h, sl) == IF sl.arr = 0 THEN <<>> ELSE SubSeq(h.arrays[sl.arr], 1, sl.len)

\* cap(slice)
Cap(h, sl) == IF sl.arr = 0 THEN 0 ELSE Len(h.arrays[sl.arr])

\* what s.responses[pollID] reads as, for every pollID
View(h) == [id \in PollIDs |-> Elems(h, h.hdr[id])]

\* the arrays the map or a call in flight refers to
Referenced(h, locs) ==
    ({h.hdr[id].arr : id \in PollIDs} \cup {locs[p].slice.arr : p \in Procs}) \ {0}

\* the garbage collector: an array nothing refers to is gone
Collect(h, locs) ==
    [h EXCEPT !.arrays = [a \in ArrayIDs |->
                             IF a \in Referenced(h, locs) THEN h.arrays[a] ELSE <<>>]]

\* the array an allocation returns
FreshArray(h, locs) ==
    CHOOSE a \in ArrayIDs \ Referenced(h, locs) :
        \A b \in ArrayIDs \ Referenced(h, locs) : a <= b

\* the capacity append gives the array it allocates for one more element
GrowCap(cap) == IF cap = 0 THEN 1 ELSE 2 * cap

\* the index of the first element with the identifier, 0 when there is none
IndexOfID(elems, id) ==
    LET hits == {i \in 1..Len(elems) : elems[i].ID = id}
    IN IF hits = {} THEN 0 ELSE CHOOSE i \in hits : \A j \in hits : i <= j

\* responses[i] = response
WriteElem(h, sl, i, response) ==
    [h EXCEPT !.arrays[sl.arr] = [@ EXCEPT ![i] = response]]

\* the array append(responses, response) allocates when len = cap
GrownArray(h, sl, response) ==
    Elems(h, sl) \o <<response>>
    \o [k \in 1..(GrowCap(Cap(h, sl)) - sl.len - 1) |-> NoResponse]

\* copy(responses[i:], responses[i+1:]) of append(responses[:i], responses[i+1:]...)
ShiftedArray(array, i, len) ==
    SubSeq(array, 1, i - 1) \o SubSeq(array, i + 1, len) \o SubSeq(array, len, Len(array))

\* the polls and responses the overlapping calls pass in
RacePollIDs == {PollA}
RacePolls == {poll \in PollInputs : poll.ID \in RacePollIDs /\ poll.CreatedAt = 1}
RaceResponses == {response \in ResponseInputs : response.CreatedAt = 1}

\* a goroutine may start a call
MayCall(p) == pc[p] \in {"idle", "returned"} /\ started < MaxRaceCalls

\* the call of p goes on at the given step, with the given locals and store
CallGoesOn(p, label, l, ps, rs, h) ==
    LET locs == [loc EXCEPT ![p] = l]
        h2 == Collect(h, locs)
    IN /\ started' = (IF pc[p] \in {"idle", "returned"} THEN started + 1 ELSE started)
       /\ pc' = [pc EXCEPT ![p] = label]
       /\ loc' = locs
       /\ polls' = ps
       /\ heap' = h2
       /\ responses' = (IF backend = "memory" THEN View(h2) ELSE rs)
       /\ UNCHANGED <<result, issued, backend, call>>

\* the call of p returns err
CallReturns(p, err, l, ps, rs, h) ==
    LET locs == [loc EXCEPT ![p] = [l EXCEPT !.slice = NilSlice, !.err = err]]
        h2 == Collect(h, locs)
    IN /\ started' = (IF pc[p] \in {"idle", "returned"} THEN started + 1 ELSE started)
       /\ pc' = [pc EXCEPT ![p] = "returned"]
       /\ loc' = locs
       /\ result' = [result EXCEPT ![p] = err]
       /\ polls' = ps
       /\ heap' = h2
       /\ responses' = (IF backend = "memory" THEN View(h2) ELSE rs)
       /\ UNCHANGED <<issued, backend, call>>

(* CreatePoll: on DynamoDB the conditional PutItem; on memory the lookup   *)
GoCreatePoll(p) ==
    /\ MayCall(p)
    /\ \E poll \in RacePolls :
         LET l == [NoLoc EXCEPT !.op = "CreatePoll", !.pollID = poll.ID, !.poll = poll]
             r == DynamoCreatePoll(polls, poll)
         IN IF backend = "dynamodb"
            THEN CallReturns(p, r.err, l, r.polls, responses, heap)
            ELSE IF poll.ID \in DOMAIN polls
            THEN CallReturns(p, errConflict, l, polls, responses, heap)
            ELSE CallGoesOn(p, "CreatePollStore", l, polls, responses, heap)

(* MemoryStorage.CreatePoll: s.polls[poll.ID] = poll *)
CreatePollStore(p) ==
    /\ pc[p] = "CreatePollStore"
    /\ LET poll == loc[p].poll
           ps == [id \in DOMAIN polls \cup {poll.ID} |->
                     IF id = poll.ID THEN poll ELSE polls[id]]
       IN CallReturns(p, errNil, loc[p], ps, responses, heap)

(* AddResponse: on DynamoDB the PutItem; on memory the lookup of the poll, *)
(* the read of the slice and the scan for the identifier                   *)
GoAddResponse(p) ==
    /\ MayCall(p)
    /\ \E pollID \in RacePollIDs, response \in RaceResponses :
         LET l == [NoLoc EXCEPT !.op = "AddResponse", !.pollID = pollID,
                                !.resp = response]
             r == DynamoAddResponse(polls, responses, pollID, response)
             sl == heap.hdr[pollID]
         IN IF backend = "dynamodb"
            THEN CallReturns(p, r.err, l, polls, r.responses, heap)
            ELSE IF pollID \notin DOMAIN polls
            THEN CallReturns(p, errNotFound, l, polls, responses, heap)
            ELSE CallGoesOn(p, "AddResponseWrite",
                            [l EXCEPT !.slice = sl,
                                      !.i = IndexOfID(Elems(heap, sl), response.ID)],
                            polls, responses, heap)

(* MemoryStorage.AddResponse: responses[i] = response, or the write of     *)
(* append(responses, response), in place or into a new array               *)
AddResponseWrite(p) ==
    /\ pc[p] = "AddResponseWrite"
    /\ LET sl == loc[p].slice
           response == loc[p].resp
           fresh == FreshArray(heap, loc)
       IN IF loc[p].i # 0
          THEN CallGoesOn(p, "AddResponsePublish", loc[p], polls, responses,
                          WriteElem(heap, sl, loc[p].i, response))
          ELSE IF sl.len < Cap(heap, sl)
          THEN CallGoesOn(p, "AddResponsePublish",
                          [loc[p] EXCEPT !.slice = [arr |-> sl.arr, len |-> sl.len + 1]],
                          polls, responses, WriteElem(heap, sl, sl.len + 1, response))
          ELSE CallGoesOn(p, "AddResponsePublish",
                          [loc[p] EXCEPT !.slice = [arr |-> fresh, len |-> sl.len + 1]],
                          polls, responses,
                          [heap EXCEPT !.arrays[fresh] = GrownArray(heap, sl, response)])

(* MemoryStorage.AddResponse: s.responses[pollID] = ... *)
AddResponsePublish(p) ==
    /\ pc[p] = "AddResponsePublish"
    /\ CallReturns(p, errNil, loc[p], polls, responses,
                   [heap EXCEPT !.hdr[loc[p].pollID] = loc[p].slice])

(* UpdatePollDays: on DynamoDB the UpdateItem; on memory the lookup *)
GoUpdatePollDays(p) ==
    /\ MayCall(p)
    /\ \E pollID \in RacePollIDs, days \in {<<Day1>>, <<Day2>>} :
         LET l == [NoLoc EXCEPT !.op = "UpdatePollDays", !.pollID = pollID,
                                !.days = days]
             r == DynamoUpdatePollDays(polls, pollID, days)
         IN IF backend = "dynamodb"
            THEN CallReturns(p, r.err, l, r.polls, responses, heap)
            ELSE IF pollID \notin DOMAIN polls
            THEN CallReturns(p, errNotFound, l, polls, responses, heap)
            ELSE CallGoesOn(p, "UpdatePollDaysStore", [l EXCEPT !.poll = polls[pollID]],
                            polls, responses, heap)

(* MemoryStorage.UpdatePollDays: poll.Days = days; s.polls[pollID] = poll *)
UpdatePollDaysStore(p) ==
    /\ pc[p] = "UpdatePollDaysStore"
    /\ LET poll == [loc[p].poll EXCEPT !.Days = loc[p].days]
       IN CallReturns(p, errNil, loc[p],
                      [polls EXCEPT ![loc[p].pollID] = poll], responses, heap)

(* DeleteResponse: on DynamoDB the DeleteItem; on memory the lookup of the *)
(* poll, the read of the slice and the scan for the identifier             *)
GoDeleteResponse(p) ==
    /\ MayCall(p)
    /\ \E pollID \in RacePollIDs, responseID \in {<<12>>, <<13>>} :
         LET l == [NoLoc EXCEPT !.op = "DeleteResponse", !.pollID = pollID,
                                !.responseID = responseID]
             r == DynamoDeleteResponse(polls, responses, pollID, responseID)
             sl == heap.hdr[pollID]
             i == IndexOfID(Elems(heap, sl), responseID)
         IN IF backend = "dynamodb"
            THEN CallReturns(p, r.err, l, polls, r.responses, heap)
            ELSE IF pollID \notin DOMAIN polls
            THEN CallReturns(p, errNotFound, l, polls, responses, heap)
            ELSE IF i = 0
            THEN CallReturns(p, errNil, l, polls, responses, heap)
            ELSE CallGoesOn(p, "DeleteResponseWrite", [l EXCEPT !.slice = sl, !.i = i],
                            polls, responses, heap)

(* MemoryStorage.DeleteResponse: append(responses[:i], responses[i+1:]...) *)
(* moves the elements after i down, in the array                           *)
DeleteResponseWrite(p) ==
    /\ pc[p] = "DeleteResponseWrite"
    /\ LET sl == loc[p].slice
       IN CallGoesOn(p, "DeleteResponsePublish",
                     [loc[p] EXCEPT !.slice = [arr |-> sl.arr, len |-> sl.len - 1]],
                     polls, responses,
                     [heap EXCEPT !.arrays[sl.arr] = ShiftedArray(@, loc[p].i, sl.len)])

(* MemoryStorage.DeleteResponse: s.responses[pollID] = ... *)
DeleteResponsePublish(p) ==
    /\ pc[p] = "DeleteResponsePublish"
    /\ CallReturns(p, errNil, loc[p], polls, responses,
                   [heap EXCEPT !.hdr[loc[p].pollID] = loc[p].slice])

\* the steps that write a map of MemoryStorage
MapWriteSteps ==
    {"CreatePollStore", "UpdatePollDaysStore", "AddResponsePublish",
     "DeleteResponsePublish"}

(* two goroutines write a map at once and the runtime notices: "fatal      *)
(* error: concurrent map writes".  The process exits and its store is gone *)
FatalConcurrentMapWrites ==
    /\ \E p, q \in Procs :
         /\ p # q
         /\ pc[p] \in MapWriteSteps
         /\ pc[q] \in MapWriteSteps
         /\ (pc[p] \in {"CreatePollStore", "UpdatePollDaysStore"})
            = (pc[q] \in {"CreatePollStore", "UpdatePollDaysStore"})
    /\ pc' = [p \in Procs |-> "exited"]
    /\ loc' = [p \in Procs |-> NoLoc]
    /\ result' = [p \in Procs |-> "none"]
    /\ polls' = [id \in {} |-> NoPoll]
    /\ responses' = [id \in PollIDs |-> <<>>]
    /\ heap' = NoHeap
    /\ UNCHANGED <<started, issued, backend, call>>

RaceNext ==
    \/ \E p \in Procs :
         \/ GoCreatePoll(p)
         \/ CreatePollStore(p)
         \/ GoAddResponse(p)
         \/ AddResponseWrite(p)
         \/ AddResponsePublish(p)
         \/ GoUpdatePollDays(p)
         \/ UpdatePollDaysStore(p)
         \/ GoDeleteResponse(p)
         \/ DeleteResponseWrite(p)
         \/ DeleteResponsePublish(p)
    \/ FatalConcurrentMapWrites

RaceSpec == StorageInit /\ [][RaceNext]_vars

----------------------------------------------------------------------------
(* normalizeDays called directly, as TestNormalizeDays does: on a list of  *)
(* strings, and once more on the list it returned.  loc[1].form is the     *)
(* list it was given, loc[1].days the list it returned                     *)

\* the strings of such a list: dates, padded on either side, empty, blank
NormalizeInputs == {EmptyString, SP, Day1, Day2, SP \o Day1, Day2 \o SP}

NormalizeLists == UNION {[1..n -> NormalizeInputs] : n \in 0..MaxListLen}

CallNormalizeDays ==
    /\ pc[1] = "idle"
    /\ \E input \in NormalizeLists :
         /\ pc' = [pc EXCEPT ![1] = "normalized"]
         /\ loc' = [loc EXCEPT ![1] = [NoLoc EXCEPT !.op = "normalizeDays",
                                                    !.form = input,
                                                    !.days = normalizeDays(input)]]
    /\ UNCHANGED <<polls, responses, result, started, issued, backend, call, heap>>

CallNormalizeDaysAgain ==
    /\ pc[1] = "normalized"
    /\ pc' = [pc EXCEPT ![1] = "renormalized"]
    /\ loc' = [loc EXCEPT ![1] = [loc[1] EXCEPT !.form = loc[1].days,
                                               !.days = normalizeDays(loc[1].days)]]
    /\ UNCHANGED <<polls, responses, result, started, issued, backend, call, heap>>

NormalizeNext == CallNormalizeDays \/ CallNormalizeDaysAgain

NormalizeSpec == Init /\ [][NormalizeNext]_vars

----------------------------------------------------------------------------
(* Properties *)

ResponsesOf(pollID) == Range(responses[pollID])

DaysWithin(days, allowed) == Range(days) \subseteq Range(allowed)

\* p has finished a request of the given kind with the given answer
Answered(p, op, answer) ==
    pc[p] = "done" /\ loc[p].op = op /\ result[p] = answer

\* the indexes of the responses of the poll that carry the token
WithToken(pollID, token) ==
    {i \in 1..Len(responses[pollID]) : responses[pollID][i].UserToken = token}

\* C1: a submit-response with a token that already has a response (stored by
\* an earlier request with the same token) leaves exactly one response with
\* that token: it keeps the identifier and the creation timestamp of the
\* earlier one and carries the name and the selected days of this request.
C1_ResubmitUpdatesInPlace ==
    \A p \in Procs :
        Answered(p, "submit", "ok")
        => \A k \in 1..Len(loc[p].snapshot) :
               loc[p].snapshot[k].UserToken = loc[p].token
               => LET old == loc[p].snapshot[k]
                      now == WithToken(loc[p].pollID, loc[p].token)
                  IN /\ Cardinality(now) = 1
                     /\ \A i \in now :
                           LET r == responses[loc[p].pollID][i]
                           IN /\ r.ID = old.ID
                              /\ r.CreatedAt = old.CreatedAt
                              /\ r.Name = loc[p].name
                              /\ r.Days = loc[p].days

\* a visitor has submitted a second time, with another name and other days
C1_Witness ==
    \E p \in Procs :
        /\ Answered(p, "submit", "ok")
        /\ loc[p].token \in VisitorTokens
        /\ \E i \in 1..Len(loc[p].snapshot) :
              /\ loc[p].snapshot[i].UserToken = loc[p].token
              /\ loc[p].snapshot[i].Name # loc[p].name
              /\ loc[p].snapshot[i].Days # loc[p].days

\* C2: under any interleaving of requests, a poll holds at most one response
\* per userToken.
C2_OneResponsePerToken ==
    \A id \in PollIDs :
        \A i, j \in 1..Len(responses[id]) :
            responses[id][i].UserToken = responses[id][j].UserToken => i = j

\* C3: update-dates and delete-response by a caller whose token is not the
\* poll's creatorToken (a token is given and the poll is read) are answered
\* Forbidden, and the poll and its responses stay as they are.
C3_NonCreatorForbidden ==
    [][\A p \in Procs :
          (/\ pc[p] = "idle"
           /\ pc'[p] # "idle"
           /\ loc'[p].op \in {"update-dates", "delete-response"}
           /\ loc'[p].pollID \in DOMAIN polls
           /\ loc'[p].token # EmptyString
           /\ loc'[p].token # polls[loc'[p].pollID].CreatorToken
           /\ loc'[p].err # errUnavailable)
          => /\ pc'[p] = "done"
             /\ result'[p] = "forbidden"
             /\ polls' = polls
             /\ responses' = responses]_vars

\* a respondent of the poll has been refused
C3_Witness ==
    \E p \in Procs :
        /\ pc[p] = "done"
        /\ result[p] = "forbidden"
        /\ loc[p].op \in {"update-dates", "delete-response"}
        /\ WithToken(loc[p].pollID, loc[p].token) # {}
        /\ Len(responses[loc[p].pollID]) > 1

\* C4: after a creator's update-dates(D') that succeeded with no other
\* request in between, the days of every response of the poll are within D'.
C4_ResponsesPrunedToNewDays ==
    \A p \in Procs :
        Answered(p, "update-dates", "redirect")
        => \A r \in ResponsesOf(loc[p].pollID) : DaysWithin(r.Days, loc[p].days)

\* an update-dates has succeeded that had a response to prune
C4_Witness ==
    \E p \in Procs :
        /\ Answered(p, "update-dates", "redirect")
        /\ \E i \in 1..Len(loc[p].snapshot) :
              ~DaysWithin(loc[p].snapshot[i].Days, loc[p].days)

\* C5: in every state a GetPoll can observe, the days of every response are
\* within the days of its poll.
C5_ResponseDaysWithinPollDays ==
    \A id \in DOMAIN polls :
        \A r \in ResponsesOf(id) : DaysWithin(r.Days, polls[id].Days)

\* C6: once all the requests have completed (no backend call having failed),
\* the days of every response are within the days of its poll.
C6_ConsistentWhenQuiet ==
    (\A p \in Procs : pc[p] = "idle")
    => \A id \in DOMAIN polls :
           \A r \in ResponsesOf(id) : DaysWithin(r.Days, polls[id].Days)

\* C7: after a creator's update-dates that adds a day x, the creator's own
\* response contains x.
C7_CreatorOptedIntoNewDays ==
    \A p \in Procs :
        Answered(p, "update-dates", "redirect")
        => \A x \in Range(loc[p].days) \ Range(loc[p].oldDays) :
               \A r \in ResponsesOf(loc[p].pollID) :
                   r.UserToken = polls[loc[p].pollID].CreatorToken
                   => x \in Range(r.Days)

\* C8: a creator's update-dates that adds a day x gives x to no response
\* other than the creator's: a response of another token has x afterwards
\* only if it had x before.
C8_OthersNotOptedIn ==
    \A p \in Procs :
        Answered(p, "update-dates", "redirect")
        => \A x \in Range(loc[p].days) \ Range(loc[p].oldDays) :
               \A r \in ResponsesOf(loc[p].pollID) :
                   (r.UserToken # polls[loc[p].pollID].CreatorToken
                    /\ x \in Range(r.Days))
                   => \E i \in 1..Len(loc[p].snapshot) :
                          /\ loc[p].snapshot[i].ID = r.ID
                          /\ x \in Range(loc[p].snapshot[i].Days)

\* an update-dates has added a day to a poll that has a response of another
\* token, and that response was rewritten
C8_Witness ==
    \E p \in Procs :
        /\ Answered(p, "update-dates", "redirect")
        /\ Range(loc[p].days) \ Range(loc[p].oldDays) # {}
        /\ \E i \in 1..Len(loc[p].snapshot) :
              /\ loc[p].snapshot[i].UserToken # polls[loc[p].pollID].CreatorToken
              /\ ~DaysWithin(loc[p].snapshot[i].Days, loc[p].days)

\* C9: when the write of a pruned response fails part-way through
\* update-dates, the request reports failure and the poll's days and the
\* responses are as they were before the request.
C9_UpdateDatesAllOrNothing ==
    \A p \in Procs :
        (Answered(p, "update-dates", "error") /\ loc[p].i >= 1)
        => /\ polls[loc[p].pollID].Days = loc[p].oldDays
           /\ GetPoll(polls, responses, loc[p].pollID).responses = loc[p].snapshot

\* the errors by which a backend refuses to create a poll a second time
AlreadyExists == {errConflict, errConditionalCheckFailed}

\* C10: a CreatePoll with the identifier of a poll an earlier CreatePoll
\* stored fails, with the error by which the backend says the identifier is
\* taken, and the stored poll (title, days, creatorToken, createdAt) is as
\* it was, on either backend.
C10_SecondCreateFails ==
    [][(/\ started' = started + 1
        /\ call'.op = "CreatePoll"
        /\ call'.pollID \in DOMAIN polls
        /\ polls[call'.pollID].ID = call'.pollID)
       => /\ call'.err \in AlreadyExists
          /\ call'.err = (IF backend = "memory" THEN errConflict
                          ELSE errConditionalCheckFailed)
          /\ polls' = polls
          /\ responses' = responses]_vars

\* a second CreatePoll, with another title, for a poll that has a response
C10_Witness ==
    /\ call.op = "CreatePoll"
    /\ call.err \in AlreadyExists
    /\ call.pollID \in DOMAIN polls
    /\ call.poll.Title # polls[call.pollID].Title
    /\ responses[call.pollID] # <<>>

\* the call of p has returned from the operation with the error
Returned(p, op, err) ==
    pc[p] = "returned" /\ loc[p].op = op /\ result[p] = err

\* C11: of two CreatePoll calls with the same poll identifier that run at
\* the same time on one backend, at most one returns success (the other is
\* refused because the identifier is taken), on MemoryStorage as on DynamoDB.
C11_OneCreateSucceeds ==
    \A p, q \in Procs :
        (/\ p # q
         /\ Returned(p, "CreatePoll", errNil)
         /\ Returned(q, "CreatePoll", errNil))
        => loc[p].pollID # loc[q].pollID

\* C12: the mutating calls of MemoryStorage take effect one after the other:
\* an AddResponse that returns success leaves every response with another
\* identifier stored as it was, so of two AddResponse calls with different
\* identifiers on one poll that overlap, neither loses its response.
C12_NoLostUpdate ==
    [][\A p \in Procs :
          (/\ backend = "memory"
           /\ pc[p] = "AddResponsePublish"
           /\ Returned(p, "AddResponse", errNil)')
          => \A i \in 1..Len(responses[loc[p].pollID]) :
                responses[loc[p].pollID][i].ID # loc[p].resp.ID
                => responses[loc[p].pollID][i] \in Range(responses'[loc[p].pollID])]_vars

\* C13: the two backends answer every call alike; in particular an
\* AddResponse, UpdatePollDays or DeleteResponse addressed to a poll
\* identifier no CreatePoll stored returns NotFound on DynamoDB as it does on
\* MemoryStorage, so such a call succeeds on neither.
C13_BackendsAgree ==
    (/\ call.op \in {"AddResponse", "UpdatePollDays", "DeleteResponse"}
     /\ call.err = errNil)
    => /\ call.pollID \in DOMAIN polls
       /\ polls[call.pollID].ID = call.pollID

\* a CreatePoll stored the poll of the identifier
Created(pollID) == pollID \in DOMAIN polls /\ polls[pollID].ID = pollID

\* the identifiers of the responses stored for the poll
StoredIDs(pollID) == {responses[pollID][i].ID : i \in 1..Len(responses[pollID])}

\* C14: a DeleteResponse of an identifier that the existing poll does not
\* hold (it never did, or an earlier DeleteResponse removed it) returns
\* success and leaves the polls and the responses as they were, on either
\* backend; so deleting twice is deleting once.
C14_DeleteAbsentIsNoOp ==
    [][(/\ started' = started + 1
        /\ call'.op = "DeleteResponse"
        /\ Created(call'.pollID)
        /\ call'.responses[1].ID \notin StoredIDs(call'.pollID))
       => /\ call'.err = errNil
          /\ polls' = polls
          /\ responses' = responses]_vars

\* a DeleteResponse was the second call, after the CreatePoll of its poll:
\* the poll held no response, and the call returned success
C14_Witness ==
    /\ started = 2
    /\ call.op = "DeleteResponse"
    /\ Created(call.pollID)
    /\ call.err = errNil
    /\ responses[call.pollID] = <<>>

\* C15: a delete-response of the creator that succeeds removes the response
\* with the given identifier and nothing else: the polls (their days
\* included) are as they were, and the other responses are all there, each
\* with its identifier, name, days, userToken and creation time, in the
\* order they had.
C15_DeleteRemovesOnlyThat ==
    [][\A p \in Procs :
          (pc[p] = "DeleteResponse" /\ Answered(p, "delete-response", "redirect")')
          => /\ polls' = polls
             /\ \A id \in PollIDs :
                   responses'[id] =
                       IF id = loc[p].pollID
                       THEN SelectSeq(responses[id], LAMBDA r : r.ID # loc[p].responseID)
                       ELSE responses[id]]_vars

\* the creator has deleted a response the poll held, and the poll still holds
\* another one
C15_Witness ==
    \E p \in Procs :
        /\ Answered(p, "delete-response", "redirect")
        /\ loc[p].responseID # UnknownID
        /\ loc[p].responseID \notin StoredIDs(loc[p].pollID)
        /\ responses[loc[p].pollID] # <<>>

\* C16: a submit-response with a token no stored response of the poll
\* carries adds a response of its own: the responses stored before are all
\* still there, unchanged, and there is one more (so two submits with
\* different tokens, whatever their names, make two responses).
C16_DifferentTokensTwoResponses ==
    \A p \in Procs :
        (/\ Answered(p, "submit", "ok")
         /\ \A k \in 1..Len(loc[p].snapshot) : loc[p].snapshot[k].UserToken # loc[p].token)
        => /\ Len(responses[loc[p].pollID]) = Len(loc[p].snapshot) + 1
           /\ Range(loc[p].snapshot) \subseteq ResponsesOf(loc[p].pollID)

\* the days of the form of p that the poll offers
Intersection(p) ==
    {TrimSpace(day) : day \in Range(loc[p].form)} \cap Range(polls[loc[p].pollID].Days)

\* C17: a submit-response that succeeds has a non-empty name and stores, as
\* the days of its response, the submitted days that are days of the poll,
\* each once and no other; a submit-response with an empty name or with no
\* submitted day among the poll's days is answered with the validation
\* message and the responses are as they were.
C17_SubmitStoresIntersection ==
    \A p \in Procs :
        /\ Answered(p, "submit", "ok")
           => /\ loc[p].name # EmptyString
              /\ Intersection(p) # {}
              /\ \E i \in 1..Len(responses[loc[p].pollID]) :
                    LET stored == responses[loc[p].pollID][i]
                    IN /\ stored.ID = loc[p].resp.ID
                       /\ stored.UserToken = loc[p].token
                       /\ Range(stored.Days) = Intersection(p)
                       /\ Len(stored.Days) = Cardinality(Intersection(p))
        /\ Answered(p, "submit", "validation")
           => /\ loc[p].name = EmptyString \/ Intersection(p) = {}
              /\ GetPoll(polls, responses, loc[p].pollID).responses = loc[p].snapshot

\* a submit-response succeeded whose form had a day the poll does not offer
C17_Witness ==
    \E p \in Procs :
        /\ Answered(p, "submit", "ok")
        /\ \E day \in Range(loc[p].form) :
              /\ TrimSpace(day) # EmptyString
              /\ TrimSpace(day) \notin Range(polls[loc[p].pollID].Days)

\* C18: an update-dates of the poll's creator whose form has no day left
\* after normalization (no entry, or only entries that are empty once
\* trimmed) is answered 400 "at least one day is required", and the polls
\* (their days included) and the responses are as they were.
C18_EmptyUpdateDatesRejected ==
    [][\A p \in Procs :
          (/\ pc[p] = "idle"
           /\ pc'[p] # "idle"
           /\ loc'[p].op = "update-dates"
           /\ loc'[p].pollID \in DOMAIN polls
           /\ isCreator(polls[loc'[p].pollID], loc'[p].token)
           /\ loc'[p].err = errNil
           /\ \A day \in Range(loc'[p].form) : TrimSpace(day) = EmptyString)
          => /\ Answered(p, "update-dates", "badrequest")'
             /\ polls' = polls
             /\ responses' = responses]_vars

\* the creator's update-dates with a form of empty entries was answered 400
\* while the poll has responses
C18_Witness ==
    \E p \in Procs :
        /\ Answered(p, "update-dates", "badrequest")
        /\ loc[p].form # <<>>
        /\ responses[loc[p].pollID] # <<>>

\* C19: day strings are checked to be YYYY-MM-DD dates when a poll is
\* created and when update-dates is applied: the days of a stored poll are
\* all dates.
C19_PollDaysAreDates ==
    \A id \in DOMAIN polls : \A i \in 1..Len(polls[id].Days) : IsDate(polls[id].Days[i])

\* the days of a stored poll are never empty, and a step that changes them
\* is the storage.UpdatePollDays of an update-dates of the poll's creator,
\* which puts the request's day list in their place
DaysReplacedByCreator ==
    /\ [](\A id \in DOMAIN polls : polls[id].Days # <<>>)
    /\ [][\A id \in DOMAIN polls :
             polls'[id].Days # polls[id].Days
             => \E p \in Procs :
                   /\ pc[p] = "UpdatePollDays"
                   /\ loc[p].pollID = id
                   /\ isCreator(polls[id], loc[p].token)
                   /\ polls'[id].Days = loc[p].days]_vars

\* C20: poll.days is never empty once the poll is created; submit-response
\* and delete-response never change it; it changes only by an update-dates
\* of the poll's creator, which replaces it with the request's list, and
\* only when that update-dates succeeds: one that reports failure leaves the
\* days it found.
C20_DaysChangeOnlyBySuccessfulUpdate ==
    /\ DaysReplacedByCreator
    /\ [](\A p \in Procs :
             (Answered(p, "update-dates", "error") /\ loc[p].oldDays # <<>>)
             => polls[loc[p].pollID].Days = loc[p].oldDays)

\* C21: on the page of a poll, the summary of a day of the poll says "all
\* available" exactly when the poll has a response and the days of every
\* response hold that day; with no response it says so for no day.
C21_AllAvailableIffEveryResponse ==
    \A p \in Procs :
        Answered(p, "get", "ok")
        => /\ Len(loc[p].view.Summaries) = Len(polls[loc[p].pollID].Days)
           /\ \A d \in 1..Len(loc[p].view.Summaries) :
                 loc[p].view.Summaries[d].AllAvailable
                 <=> /\ loc[p].snapshot # <<>>
                     /\ \A i \in 1..Len(loc[p].snapshot) :
                           polls[loc[p].pollID].Days[d] \in Range(loc[p].snapshot[i].Days)

\* the page of a poll with two responses has a day that is "all available"
\* and a day that is not
C21_Witness ==
    \E p \in Procs :
        /\ Answered(p, "get", "ok")
        /\ Len(loc[p].snapshot) = 2
        /\ \E d, e \in 1..Len(loc[p].view.Summaries) :
              loc[p].view.Summaries[d].AllAvailable /\ ~loc[p].view.Summaries[e].AllAvailable

\* the page of a poll without responses
PageOfNoResponses ==
    \E p \in Procs :
        /\ Answered(p, "get", "ok")
        /\ loc[p].snapshot = <<>>
        /\ loc[p].view.Summaries # <<>>

\* how often the name stands in the list
Occurrences(names, name) == Cardinality({k \in 1..Len(names) : names[k] = name})

\* C22: the page has one summary per day of the poll, in the order of
\* poll.days; the names of a day's summary are the names of the responses
\* whose days hold the day, one entry for each such response, in ascending
\* order, whatever the order of the responses.
C22_SummaryPerDayNamesSorted ==
    \A p \in Procs :
        Answered(p, "get", "ok")
        => LET days == polls[loc[p].pollID].Days
               resps == loc[p].snapshot
           IN /\ Len(loc[p].view.Summaries) = Len(days)
              /\ \A d \in 1..Len(loc[p].view.Summaries) :
                    LET names == loc[p].view.Summaries[d].Names
                    IN /\ loc[p].view.Summaries[d].Date = days[d]
                       /\ \A j, k \in 1..Len(names) : j < k => ~StrLess(names[k], names[j])
                       /\ \A name \in Range(names) \cup {resps[i].Name : i \in 1..Len(resps)} :
                             Occurrences(names, name)
                             = Cardinality({i \in 1..Len(resps) :
                                               /\ resps[i].Name = name
                                               /\ days[d] \in Range(resps[i].Days)})

\* the page of a poll of two days whose first response has the greater
\* name: the names of a day both responses hold are in the other order
C22_Witness ==
    \E p \in Procs :
        /\ Answered(p, "get", "ok")
        /\ Len(loc[p].view.Summaries) = 2
        /\ Len(loc[p].snapshot) = 2
        /\ StrLess(loc[p].snapshot[2].Name, loc[p].snapshot[1].Name)
        /\ \E d \in 1..2 : Len(loc[p].view.Summaries[d].Names) = 2

\* C23: a GetPoll that succeeds returns the responses stored for the poll,
\* each once, in ascending order of their creation time, on either backend
\* and whatever the order the calls before left them in.
C23_ResponsesByCreationTime ==
    (call.op = "GetPoll" /\ call.err = errNil)
    => /\ Len(call.responses) = Len(responses[call.pollID])
       /\ {call.responses[i].ID : i \in 1..Len(call.responses)} = StoredIDs(call.pollID)
       /\ \A i, j \in 1..Len(call.responses) :
             i < j => call.responses[i].CreatedAt <= call.responses[j].CreatedAt

\* GetPoll returned two responses of different creation times, the one the
\* backend holds first coming last
C23_Witness ==
    /\ call.op = "GetPoll"
    /\ call.err = errNil
    /\ Len(call.responses) = 2
    /\ call.responses[1].CreatedAt < call.responses[2].CreatedAt
    /\ call.responses[2].ID = responses[call.pollID][1].ID

\* C24: a GetPoll of an identifier under which no CreatePoll stored a poll
\* returns NotFound, and neither a poll nor responses, also when responses
\* are stored under the identifier.
C24_NoPollIsNotFound ==
    (call.op = "GetPoll" /\ ~Created(call.pollID))
    => /\ call.err = errNotFound
       /\ call.poll = NoPoll
       /\ call.responses = <<>>

\* GetPoll returned NotFound for an identifier that has response rows and
\* no poll
C24_Witness ==
    /\ call.op = "GetPoll"
    /\ ~Created(call.pollID)
    /\ responses[call.pollID] # <<>>
    /\ call.err = errNotFound

\* C25: an UpdatePollDays of an identifier under which no poll is stored
\* returns NotFound and leaves the store as it was, on either backend; for a
\* stored poll it succeeds and changes the days of that poll and nothing
\* else.
C25_UpdatePollDaysOnlyOfStoredPoll ==
    [][(started' = started + 1 /\ call'.op = "UpdatePollDays")
       => IF Created(call'.pollID)
          THEN /\ call'.err = errNil
               /\ responses' = responses
               /\ DOMAIN polls' = DOMAIN polls
               /\ \A id \in DOMAIN polls :
                     polls'[id] = IF id = call'.pollID
                                  THEN [polls[id] EXCEPT !.Days = polls'[id].Days]
                                  ELSE polls[id]
          ELSE /\ call'.err = errNotFound
               /\ polls' = polls
               /\ responses' = responses]_vars

\* the responses the backend in use returns for the poll from the store
Observed(ps, rs, pollID) ==
    IF backend = "memory" THEN GetPoll(ps, rs, pollID).responses
    ELSE DynamoGetPoll(ps, rs, pollID).responses

\* C26: an AddResponse on a stored poll succeeds, and afterwards the poll
\* has exactly one response with the given identifier, equal to the given
\* response in every field; there is one response more when the identifier
\* was new and as many as before when it was not, and every other response
\* is as it was.  On either backend.
C26_UpsertStoresTheResponse ==
    [][(/\ started' = started + 1
        /\ call'.op = "AddResponse"
        /\ Created(call'.pollID))
       => LET given == call'.responses[1]
              before == Observed(polls, responses, call'.pollID)
              after == Observed(polls', responses', call'.pollID)
          IN /\ call'.err = errNil
             /\ Cardinality({i \in 1..Len(after) : after[i].ID = given.ID}) = 1
             /\ given \in Range(after)
             /\ Len(after) = IF given.ID \in {before[i].ID : i \in 1..Len(before)}
                             THEN Len(before) ELSE Len(before) + 1
             /\ \A i \in 1..Len(before) :
                   before[i].ID # given.ID => before[i] \in Range(after)]_vars

\* C27: when the random source fails while an identifier or a token is
\* minted, the request reports an error and stores nothing minted from a
\* substitute: no stored poll has a creatorToken, and no stored response an
\* identifier or a userToken, that is a fallback value.
C27_NoFallbackCredentialStored ==
    /\ \A id \in DOMAIN polls : polls[id].CreatorToken \notin FallbackIDs
    /\ \A id \in PollIDs : \A i \in 1..Len(responses[id]) :
          /\ responses[id][i].ID \notin FallbackIDs
          /\ responses[id][i].UserToken \notin FallbackIDs

\* the tokens a poll may hold and a caller may present
SomeTokens == MintIDs \cup VisitorTokens \cup {EmptyString}

\* C28: whether a caller is the creator follows from the poll's
\* creatorToken and the caller's token alone: it is the creator exactly when
\* the token is not empty and equals the creatorToken (so an empty token is
\* never the creator's, not even for a poll whose creatorToken is empty).
\* The page shows the creator's controls, and update-dates and
\* delete-response are let through, exactly for that caller.
C28_CreatorIffTokenEqual ==
    /\ [](\A creatorToken, token \in SomeTokens :
             isCreator([NoPoll EXCEPT !.CreatorToken = creatorToken], token)
             <=> (token # EmptyString /\ token = creatorToken))
    /\ [](\A p \in Procs :
             Answered(p, "get", "ok")
             => (loc[p].view.IsCreator
                 <=> loc[p].token = polls[loc[p].pollID].CreatorToken))
    /\ [][\A p \in Procs :
             (/\ pc[p] = "idle"
              /\ pc'[p] # "idle"
              /\ loc'[p].op \in {"update-dates", "delete-response"}
              /\ loc'[p].pollID \in DOMAIN polls
              /\ loc'[p].token # EmptyString
              /\ loc'[p].err = errNil)
             => ((pc'[p] = "done" /\ result'[p] = "forbidden")
                 <=> loc'[p].token # polls[loc'[p].pollID].CreatorToken)]_vars

\* the creator has been shown the page with the creator's controls after a
\* visitor responded
C28_Witness ==
    \E p \in Procs :
        /\ Answered(p, "get", "ok")
        /\ loc[p].view.IsCreator
        /\ \E i \in 1..Len(loc[p].snapshot) : loc[p].snapshot[i].UserToken # loc[p].token

\* a list of days in ascending order with no day twice
StrictlyAscending(days) ==
    \A i \in 1..(Len(days) - 1) : StrLess(days[i], days[i + 1])

\* C29: when a poll-creation request has succeeded, the new poll has exactly
\* one response, the creator's: its user token is the creator token of the
\* poll and its days are the days of the poll, which are the selection in
\* ascending order with no day twice.  A creation request that is rejected
\* stores nothing, and no request gets a poll stored with an empty title or
\* without a day, or a creator's response made with an empty name.
C29_CreateStoresCreatorResponse ==
    /\ [](\A p \in Procs :
             Answered(p, "create", "redirect")
             => /\ loc[p].pollID \in DOMAIN polls
                /\ Len(responses[loc[p].pollID]) = 1
                /\ responses[loc[p].pollID][1].UserToken
                       = polls[loc[p].pollID].CreatorToken
                /\ responses[loc[p].pollID][1].Days = polls[loc[p].pollID].Days
                /\ responses[loc[p].pollID][1].Name # EmptyString
                /\ StrictlyAscending(polls[loc[p].pollID].Days))
    /\ [](\A id \in DOMAIN polls :
             polls[id].Title # EmptyString /\ Len(polls[id].Days) > 0)
    /\ [][\A p \in Procs :
             (pc[p] = "idle" /\ pc'[p] = "done" /\ loc'[p].op = "create"
              /\ result'[p] = "badrequest")
             => UNCHANGED <<polls, responses>>]_vars
    /\ [][\A p \in Procs :
             (pc[p] = "idle" /\ pc'[p] # "idle" /\ loc'[p].op = "create"
              /\ result'[p] # "badrequest")
             => (loc'[p].name # EmptyString /\ Len(loc'[p].days) > 0)]_vars

\* a creation that selected two days has succeeded
C29_Witness ==
    \E p \in Procs :
        /\ Answered(p, "create", "redirect")
        /\ Len(polls[loc[p].pollID].Days) = 2
        /\ Len(responses[loc[p].pollID]) = 1

\* C30: in every state the request handlers reach, the states between the
\* storage writes of a request and those a failed write leaves included, the
\* days of every stored poll and the days of every stored response are in
\* ascending order with no day twice.
C30_DaysSortedNoDuplicates ==
    /\ \A id \in DOMAIN polls : StrictlyAscending(polls[id].Days)
    /\ \A id \in PollIDs : \A i \in 1..Len(responses[id]) :
          StrictlyAscending(responses[id][i].Days)

\* a poll of two days with the responses of two callers, one of them for
\* both days
C30_Witness ==
    \E id \in DOMAIN polls :
        /\ Len(polls[id].Days) = 2
        /\ Len(responses[id]) = 2
        /\ responses[id][1].UserToken # responses[id][2].UserToken
        /\ \E i \in 1..2 : Len(responses[id][i].Days) = 2

\* C31: a poll is never deleted.  A CreatePoll that returns success leaves
\* the poll stored; no call of the Storage interface takes a stored poll
\* away; and every GetPoll of a stored poll returns success and the poll of
\* that identifier, on either backend, whatever AddResponse, UpdatePollDays
\* and DeleteResponse calls were made in between.
C31_PollNeverDeleted ==
    /\ []((call.op = "CreatePoll" /\ call.err = errNil) => Created(call.pollID))
    /\ [][\A id \in PollIDs : Created(id) => Created(id)']_vars
    /\ []((call.op = "GetPoll" /\ Created(call.pollID))
          => /\ call.err = errNil
             /\ call.poll.ID = call.pollID
             /\ call.poll.Title = polls[call.pollID].Title)

\* the fourth call is a GetPoll that returns a poll whose days an
\* UpdatePollDays replaced since its CreatePoll
C31_Witness ==
    /\ started = 4
    /\ call.op = "GetPoll"
    /\ call.err = errNil
    /\ call.poll.ID = call.pollID
    /\ call.poll.Days = <<Day2>>

C33_ResponsesOnlyUnderPolls ==
    /\ [](\A id \in PollIDs : responses[id] # <<>> => id \in DOMAIN polls)
    /\ [][\A p \in Procs :
             (/\ pc[p] = "idle" /\ pc'[p] # "idle"
              /\ loc'[p].op \in {"submit", "update-dates", "delete-response"}
              /\ loc'[p].pollID \notin DOMAIN polls)
             => /\ UNCHANGED <<polls, responses>>
                /\ pc'[p] = "done"
                /\ result'[p] \in {"invalid", "redirect-poll", "error"}
                /\ (loc'[p].token # EmptyString /\ loc'[p].err # errUnavailable)
                   => (result'[p] = "invalid" /\ loc'[p].err = errNotFound)]_vars

\* an update-dates of a caller with a token was answered with the redirect
\* of an invalid poll, no poll being stored
C33_Witness ==
    \E p \in Procs :
        /\ Answered(p, "update-dates", "invalid")
        /\ loc[p].token # EmptyString
        /\ loc[p].pollID \notin DOMAIN polls

\* C34: normalizeDays returns exactly the strings of its input trimmed of
\* white space, without the empty ones, each once and in ascending order;
\* called on a list it returned, it returns that list.
C34_NormalizeDaysCanonical ==
    loc[1].op = "normalizeDays"
    => /\ Range(loc[1].days)
            = {TrimSpace(loc[1].form[i]) : i \in 1..Len(loc[1].form)} \ {EmptyString}
       /\ StrictlyAscending(loc[1].days)
       /\ pc[1] = "renormalized" => loc[1].days = loc[1].form

\* normalizeDays was called again on a list of two days that it made of a
\* list of three entries
C34_Witness ==
    /\ pc[1] = "renormalized"
    /\ loc[1].op = "normalizeDays"
    /\ loc[1].days = <<Day1, Day2>>

\* C35: every stored response has at least one day, in every state the
\* request handlers reach.
C35_ResponsesHaveADay ==
    \A id \in PollIDs : \A i \in 1..Len(responses[id]) :
        Len(responses[id][i].Days) > 0

\* C35 as amended: a response is stored with at least one day by a poll
\* creation and by a submit-response; a response with no day is stored only
\* by an update-dates, as the pruned copy of a response it read, and only
\* when none of the days of that response is in the new day list.
C35_OnlyUpdateDatesEmptiesAResponse ==
    /\ [][\A p \in Procs :
             (pc[p] \in {"CreatorResponse", "SubmitAddResponse"} /\ pc'[p] # pc[p])
             => \A id \in PollIDs :
                  \A r \in Range(responses'[id]) \ Range(responses[id]) :
                      Len(r.Days) > 0]_vars
    /\ [][\A id \in PollIDs :
             \A r \in Range(responses'[id]) \ Range(responses[id]) :
                 r.Days = <<>>
                 => \E p \in Procs :
                      /\ pc[p] = "PruneResponse"
                      /\ loc[p].pollID = id
                      /\ r.ID = loc[p].snapshot[loc[p].i].ID
                      /\ r.Days = filterDays(loc[p].snapshot[loc[p].i].Days, loc[p].days)]_vars

\* an update-dates has succeeded and has left a response of the poll, one
\* that had a day when it was read, with no day
C35_Witness ==
    \E p \in Procs :
        /\ Answered(p, "update-dates", "redirect")
        /\ \E i \in 1..Len(loc[p].snapshot) :
              /\ Len(loc[p].snapshot[i].Days) > 0
              /\ [loc[p].snapshot[i] EXCEPT !.Days = <<>>] \in ResponsesOf(loc[p].pollID)

\* C36: a submit-response that has completed is not undone by an
\* update-dates that runs at the same time.  When update-dates writes a
\* response back, and a submit-response has stored that response under
\* another name since update-dates read it, what is stored afterwards is
\* what the submit-response stored, with the submitted name, its days cut
\* down to the new day list: update-dates never writes back a stale copy of
\* a response it read earlier.
C36_SubmitSurvivesUpdateDates ==
    [][\A p \in Procs :
          (/\ pc[p] = "PruneResponse"
           /\ pc'[p] # pc[p] \/ loc'[p] # loc[p]
           /\ responses' # responses)
          => \A cur \in ResponsesOf(loc[p].pollID) :
               (/\ cur.ID = loc[p].snapshot[loc[p].i].ID
                /\ cur.Name # loc[p].snapshot[loc[p].i].Name)
               => [cur EXCEPT !.Days = filterDays(cur.Days, loc[p].days)]
                     \in Range(responses'[loc[p].pollID])]_vars

\* C37: a response that a delete-response has removed stays removed until
\* its owner submits again.  No write of an update-dates adds a response to
\* the poll: the response it writes back has the identifier of a response
\* that is stored, also when a delete-response has run since the
\* update-dates read the responses.
C37_DeletedStaysDeleted ==
    [][\A p \in Procs :
          (/\ pc[p] = "PruneResponse"
           /\ pc'[p] # pc[p] \/ loc'[p] # loc[p]
           /\ responses' # responses)
          => \A r \in Range(responses'[loc[p].pollID]) :
               r.ID \in StoredIDs(loc[p].pollID)]_vars

\* C38: the identifier, the title, the creator token and the creation time
\* of a poll never change once it is created: every call of the Storage
\* interface, on either backend, leaves a stored poll stored with these four
\* fields as they were (a CreatePoll of its identifier is refused), so the
\* tokens with creator authority over the poll stay the same.
C38_PollIdentityFixed ==
    [][\A id \in PollIDs :
          Created(id)
          => /\ Created(id)'
             /\ polls'[id].ID = polls[id].ID
             /\ polls'[id].Title = polls[id].Title
             /\ polls'[id].CreatorToken = polls[id].CreatorToken
             /\ polls'[id].CreatedAt = polls[id].CreatedAt
             /\ \A token \in SomeTokens \cup {polls[id].CreatorToken} :
                  isCreator(polls'[id], token) <=> isCreator(polls[id], token)]_vars

\* an UpdatePollDays has replaced the days of a stored poll, and a
\* CreatePoll of its identifier with another title was then refused
C38_Witness ==
    /\ call.op = "CreatePoll"
    /\ call.err # errNil
    /\ Created(call.pollID)
    /\ polls[call.pollID].Days = <<Day2>>
    /\ polls[call.pollID].Title # call.poll.Title

\* C39: polls are isolated from each other.  Every step of a
\* submit-response, update-dates or delete-response request addressed to a
\* poll leaves every other poll and the responses of every other poll as
\* they were, whatever token the caller carries and whatever response
\* identifier the form names.
C39_PollsIsolated ==
    [][\A p \in Procs :
          (/\ pc[p] # "done"
           /\ loc'[p].op \in {"submit", "update-dates", "delete-response"})
          => \A other \in PollIDs \ {loc'[p].pollID} :
               /\ responses'[other] = responses[other]
               /\ other \in DOMAIN polls
                  => (other \in DOMAIN polls' /\ polls'[other] = polls[other])]_vars

\* a caller who carries the creator token of one poll has submitted a
\* response to the other poll, and it was stored
C39_Witness ==
    \E p \in Procs : \E other \in DOMAIN polls \ {loc[p].pollID} :
        /\ Answered(p, "submit", "ok")
        /\ loc[p].token = polls[other].CreatorToken
        /\ \E r \in ResponsesOf(loc[p].pollID) : r.UserToken = loc[p].token
        /\ responses[other] # <<>>

====
